---- MODULE Spec2Model ----
(***************************************************************************)
(* rtc::scoped_refptr<T> (api/scoped_refptr.h): a smart pointer for        *)
(* intrusively reference counted objects.  The model holds a small heap of *)
(* reference counted objects, a set of wrapper storage places, and the raw *)
(* pointer slots of the calling code.  Every public operation of the class *)
(* is one action; the two assignment operators whose statement order the   *)
(* header documents are split into the statements of their bodies, so that *)
(* the states between the statements are states of the model.              *)
(* Spec is the single threaded use of wrappers that are variables of the   *)
(* calling code; SpecMember adds wrappers that are data members of the     *)
(* counted objects (linked lists); SpecThreads runs copy constructors and  *)
(* destructors of several threads on one shared object.                    *)
(***************************************************************************)
EXTENDS Integers, Sequences, FiniteSets

\* ---------------------------------------------------------------- bounds
\* Number of reference counted objects on the heap.
NumObj == 2
\* Number of storage places a scoped_refptr can be constructed in.
NumW == 2
\* Number of raw pointer variables (T*) of the calling code that own a
\* reference: the results of release() and the slots given to swap(T**).
NumSlot == 1
\* Number of threads that each own wrappers on one shared object.
NumThread == 3

\* nullptr
NULL == 0

Obj == 1..NumObj
W == 1..NumW
Slot == 1..NumSlot
Thread == 1..NumThread
Ptr == Obj \cup {NULL}

VARIABLES
  count,      \* count[o]: the reference count of object o
  destroyed,  \* destroyed[o]: how many times o's count reached zero in Release
  live,       \* live[w]: a scoped_refptr is constructed at place w
  ptr_,       \* ptr_[w]: the member ptr_ of the wrapper at w
  slot,       \* slot[s]: a raw pointer of the caller that owns one reference
  tmp,        \* ptr_ of the temporary of a move assignment
  pc,         \* the statement the running operation is at, "idle" between calls
  cur,        \* the running (or, when idle, the last) operation and its arguments
  calls,      \* the AddRef/Release calls cur has issued so far, in order
  pre,        \* the state when cur was entered
  prev,       \* the operation before cur and the state it was entered in,
              \* kept when cur follows it in the sense of Follows
  phase,      \* progress of the header's lifecycle example
  uaf,        \* a capability call was issued on a destroyed object
  held,       \* the objects AddRef was ever called on
  owner,      \* owner[w]: the object the wrapper at w is a data member of,
              \* NULL for a wrapper that is a variable of the calling code
  thr         \* thr[t]: the wrappers of thread t and the statement it is at

vars == <<count, destroyed, live, ptr_, slot, tmp, pc, cur, calls, pre, prev,
          phase, uaf, held, owner, thr>>

\* ------------------------------------------------------ the counted object
\* The heap part of the state an AddRef/Release call reads and writes.
Heap == [count |-> count, destroyed |-> destroyed, calls |-> calls,
         uaf |-> uaf, held |-> held]

\* T::AddRef(): one more strong reference.
AddRef(h, o) ==
  IF h.destroyed[o] > 0
    THEN [h EXCEPT !.uaf = TRUE, !.calls = Append(@, <<"AddRef", o>>)]
    ELSE [h EXCEPT !.count[o] = @ + 1, !.calls = Append(@, <<"AddRef", o>>),
                   !.held = @ \cup {o}]

\* The wrappers that are data members of o and hold a reference: the
\* destructor of o runs their destructors.
Members(o) == {w \in W : owner[w] = o /\ live[w] /\ ptr_[w] # NULL}

RECURSIVE Release(_, _), ReleaseMembers(_, _)

\* T::Release(): one strong reference less; the object is destroyed when the
\* count reaches zero, and its member wrappers with it.
Release(h, o) ==
  IF h.destroyed[o] > 0
    THEN [h EXCEPT !.uaf = TRUE, !.calls = Append(@, <<"Release", o>>)]
    ELSE LET h1 == [h EXCEPT !.count[o] = @ - 1,
                             !.calls = Append(@, <<"Release", o>>)]
         IN IF h1.count[o] = 0
              THEN ReleaseMembers([h1 EXCEPT !.destroyed[o] = @ + 1],
                                  Members(o))
              ELSE h1

\* The destructors of the member wrappers ms of an object being destroyed.
ReleaseMembers(h, ms) ==
  IF ms = {} THEN h
  ELSE LET m == CHOOSE x \in ms : TRUE
       IN ReleaseMembers(Release(h, ptr_[m]), ms \ {m})

\* if (p) p->AddRef();
AddRefIf(h, p) == IF p # NULL THEN AddRef(h, p) ELSE h

\* if (p) p->Release();
ReleaseIf(h, p) == IF p # NULL THEN Release(h, p) ELSE h

SetHeap(h) ==
  /\ count' = h.count
  /\ destroyed' = h.destroyed
  /\ calls' = h.calls
  /\ uaf' = h.uaf
  /\ held' = h.held

\* ------------------------------------------------------------ bookkeeping
Snap == [count |-> count, destroyed |-> destroyed, live |-> live,
         ptr_ |-> ptr_, slot |-> slot]

\* An operation: its name, the wrapper it runs on (w), the wrapper argument
\* (r), the raw pointer argument (p), the raw slot argument (s) and the raw
\* pointer it returns (ret).
Op(name, w, r, p, s, ret) ==
  [op |-> name, w |-> w, r |-> r, p |-> p, s |-> s, ret |-> ret]

NoOp == Op("none", 0, 0, NULL, 0, NULL)

InitSnap == [count |-> [o \in Obj |-> 0], destroyed |-> [o \in Obj |-> 0],
             live |-> [w \in W |-> FALSE], ptr_ |-> [w \in W |-> NULL],
             slot |-> [s \in Slot |-> NULL]]

NoPrev == [op |-> NoOp, pre |-> InitSnap]

\* The pairs of consecutive operations whose joint effect is of interest:
\* operation c follows cur as the destruction of a wrapper just copy
\* constructed, or as the repetition of a swap.
Follows(c) ==
  \/ cur.op = "scoped_refptr_copy" /\ c.op = "dtor" /\ c.w = cur.w
  \/ cur.op = "swap" /\ c.op = "swap" /\ {c.w, c.r} = {cur.w, cur.r}

\* The header's example: w1 = new O; w2 = w1; w1 = nullptr; w2 destroyed.
NoPhase == [n |-> 0, o |-> NULL, w1 |-> 0, w2 |-> 0]

NextPhase(c) ==
  IF c.op = "scoped_refptr_raw" /\ c.p # NULL /\ count[c.p] = 0
    THEN [n |-> 1, o |-> c.p, w1 |-> c.w, w2 |-> 0]
  ELSE IF phase.n = 1 /\ c.op \in {"scoped_refptr_copy", "assign_copy"}
          /\ c.r = phase.w1 /\ c.w # phase.w1
    THEN [phase EXCEPT !.n = 2, !.w2 = c.w]
  ELSE IF phase.n = 2 /\ c.op = "assign_raw" /\ c.w = phase.w1 /\ c.p = NULL
    THEN [phase EXCEPT !.n = 3]
  ELSE IF phase.n = 3 /\ c.op = "dtor" /\ c.w = phase.w2
    THEN [phase EXCEPT !.n = 4]
  ELSE NoPhase

\* Entering operation c: only between operations, and only while the
\* behaviour of the program is defined.
Enter(c) ==
  /\ pc = "idle"
  /\ ~uaf
  /\ cur' = c
  /\ pre' = Snap
  /\ prev' = IF Follows(c) THEN [op |-> cur, pre |-> pre] ELSE NoPrev
  /\ phase' = NextPhase(c)
  /\ UNCHANGED <<owner, thr>>

\* The raw pointers calling code may pass: nullptr or an object that exists.
RawPtrs == {NULL} \cup {o \in Obj : destroyed[o] = 0}

\* The heap at the entry of an operation: no call issued yet.
Heap0 == [Heap EXCEPT !.calls = <<>>]

\* ---------------------------------------------------------------- threads
\* The wrapper places of one thread.
NumTPlace == 2
TPlace == 1..NumTPlace

\* A thread with no wrapper constructed.
NoThread == [pc |-> "idle", k |-> 0,
             live |-> [k \in TPlace |-> FALSE],
             ptr |-> [k \in TPlace |-> NULL]]

\* ------------------------------------------------------------------- Init
Init ==
  /\ count = [o \in Obj |-> 0]
  /\ destroyed = [o \in Obj |-> 0]
  /\ live = [w \in W |-> FALSE]
  /\ ptr_ = [w \in W |-> NULL]
  /\ slot = [s \in Slot |-> NULL]
  /\ tmp = NULL
  /\ pc = "idle"
  /\ cur = NoOp
  /\ calls = <<>>
  /\ pre = InitSnap
  /\ prev = NoPrev
  /\ phase = NoPhase
  /\ uaf = FALSE
  /\ held = {}
  /\ owner = [w \in W |-> NULL]
  /\ thr = [t \in Thread |-> NoThread]

\* ----------------------------------------------------------- constructors
\* scoped_refptr() : ptr_(nullptr) {}
scoped_refptr_default(w) ==
  /\ ~live[w]
  /\ Enter(Op("scoped_refptr_default", w, 0, NULL, 0, NULL))
  /\ live' = [live EXCEPT ![w] = TRUE]
  /\ ptr_' = [ptr_ EXCEPT ![w] = NULL]
  /\ SetHeap(Heap0)
  /\ UNCHANGED <<slot, tmp, pc>>

\* Variant: the constructor adopts p without counting the new reference.
scoped_refptr_raw_Adopt(w, p) ==
  /\ ~live[w]
  /\ p \in RawPtrs
  /\ Enter(Op("scoped_refptr_raw", w, 0, p, 0, NULL))
  /\ live' = [live EXCEPT ![w] = TRUE]
  /\ ptr_' = [ptr_ EXCEPT ![w] = p]
  /\ SetHeap(Heap0)
  /\ UNCHANGED <<slot, tmp, pc>>

\* scoped_refptr(T* p) : ptr_(p) { if (ptr_) ptr_->AddRef(); }
scoped_refptr_raw(w, p) ==
  /\ ~live[w]
  /\ p \in RawPtrs
  /\ Enter(Op("scoped_refptr_raw", w, 0, p, 0, NULL))
  /\ live' = [live EXCEPT ![w] = TRUE]
  /\ ptr_' = [ptr_ EXCEPT ![w] = p]
  /\ SetHeap(AddRefIf(Heap0, p))
  /\ UNCHANGED <<slot, tmp, pc>>

\* Variant: the copy constructor copies the pointer and forgets AddRef.
scoped_refptr_copy_NoAddRef(w, r) ==
  /\ ~live[w]
  /\ live[r]
  /\ Enter(Op("scoped_refptr_copy", w, r, NULL, 0, NULL))
  /\ live' = [live EXCEPT ![w] = TRUE]
  /\ ptr_' = [ptr_ EXCEPT ![w] = ptr_[r]]
  /\ SetHeap(Heap0)
  /\ UNCHANGED <<slot, tmp, pc>>

\* scoped_refptr(const scoped_refptr<T>& r) : ptr_(r.ptr_)
\*   { if (ptr_) ptr_->AddRef(); }
scoped_refptr_copy(w, r) ==
  /\ ~live[w]
  /\ live[r]
  /\ Enter(Op("scoped_refptr_copy", w, r, NULL, 0, NULL))
  /\ live' = [live EXCEPT ![w] = TRUE]
  /\ ptr_' = [ptr_ EXCEPT ![w] = ptr_[r]]
  /\ SetHeap(AddRefIf(Heap0, ptr_[r]))
  /\ UNCHANGED <<slot, tmp, pc>>

\* Variant: the move constructor reads r.get() and leaves r as it was.
scoped_refptr_move_KeepSource(w, r) ==
  /\ ~live[w]
  /\ live[r]
  /\ Enter(Op("scoped_refptr_move", w, r, NULL, 0, NULL))
  /\ live' = [live EXCEPT ![w] = TRUE]
  /\ ptr_' = [ptr_ EXCEPT ![w] = ptr_[r]]
  /\ SetHeap(Heap0)
  /\ UNCHANGED <<slot, tmp, pc>>

\* Variant: the move constructor takes a reference of its own before it
\* empties r.
scoped_refptr_move_AddRef(w, r) ==
  /\ ~live[w]
  /\ live[r]
  /\ Enter(Op("scoped_refptr_move", w, r, NULL, 0, NULL))
  /\ live' = [live EXCEPT ![w] = TRUE]
  /\ ptr_' = [ptr_ EXCEPT ![w] = ptr_[r], ![r] = NULL]
  /\ SetHeap(AddRefIf(Heap0, ptr_[r]))
  /\ UNCHANGED <<slot, tmp, pc>>

\* scoped_refptr(scoped_refptr<T>&& r) noexcept : ptr_(r.release()) {}
scoped_refptr_move(w, r) ==
  /\ ~live[w]
  /\ live[r]
  /\ Enter(Op("scoped_refptr_move", w, r, NULL, 0, NULL))
  /\ live' = [live EXCEPT ![w] = TRUE]
  /\ ptr_' = [ptr_ EXCEPT ![w] = ptr_[r], ![r] = NULL]
  /\ SetHeap(Heap0)
  /\ UNCHANGED <<slot, tmp, pc>>

\* Variant: the destructor does not give its reference back.
dtor_NoRelease(w) ==
  /\ live[w]
  /\ Enter(Op("dtor", w, 0, NULL, 0, NULL))
  /\ live' = [live EXCEPT ![w] = FALSE]
  /\ ptr_' = [ptr_ EXCEPT ![w] = NULL]
  /\ SetHeap(Heap0)
  /\ UNCHANGED <<slot, tmp, pc>>

\* ~scoped_refptr() { if (ptr_) ptr_->Release(); }
\* The storage of the wrapper ends with it: its place reads as null.
dtor(w) ==
  /\ live[w]
  /\ Enter(Op("dtor", w, 0, NULL, 0, NULL))
  /\ live' = [live EXCEPT ![w] = FALSE]
  /\ ptr_' = [ptr_ EXCEPT ![w] = NULL]
  /\ SetHeap(ReleaseIf(Heap0, ptr_[w]))
  /\ UNCHANGED <<slot, tmp, pc>>

\* -------------------------------------------------------------- accessors
\* Variant: get() hands out a counted reference.
get_AddRef(w) ==
  /\ live[w]
  /\ Enter(Op("get", w, 0, NULL, 0, ptr_[w]))
  /\ SetHeap(AddRefIf(Heap0, ptr_[w]))
  /\ UNCHANGED <<live, ptr_, slot, tmp, pc>>

\* T* get() const { return ptr_; }   (also operator T*() and operator->())
get(w) ==
  /\ live[w]
  /\ Enter(Op("get", w, 0, NULL, 0, ptr_[w]))
  /\ SetHeap(Heap0)
  /\ UNCHANGED <<live, ptr_, slot, tmp, pc>>

\* Variant: release() drops the reference as a reset would.
release_Decrement(w, s) ==
  /\ live[w]
  /\ slot[s] = NULL
  /\ Enter(Op("release", w, 0, NULL, s, ptr_[w]))
  /\ ptr_' = [ptr_ EXCEPT ![w] = NULL]
  /\ slot' = [slot EXCEPT ![s] = ptr_[w]]
  /\ SetHeap(ReleaseIf(Heap0, ptr_[w]))
  /\ UNCHANGED <<live, tmp, pc>>

\* T* release() { T* retVal = ptr_; ptr_ = nullptr; return retVal; }
\* The caller keeps the returned pointer in its raw pointer variable s.
release(w, s) ==
  /\ live[w]
  /\ slot[s] = NULL
  /\ Enter(Op("release", w, 0, NULL, s, ptr_[w]))
  /\ ptr_' = [ptr_ EXCEPT ![w] = NULL]
  /\ slot' = [slot EXCEPT ![s] = ptr_[w]]
  /\ SetHeap(Heap0)
  /\ UNCHANGED <<live, tmp, pc>>

\* "the caller of release() is now the proud owner of one reference, so it
\* is responsible for calling Release() once on the object": the caller's
\* p->Release() on a raw pointer it owns.
caller_Release(s) ==
  /\ slot[s] # NULL
  /\ Enter(Op("caller_Release", 0, 0, slot[s], s, NULL))
  /\ slot' = [slot EXCEPT ![s] = NULL]
  /\ SetHeap(Release(Heap0, slot[s]))
  /\ UNCHANGED <<live, ptr_, tmp, pc>>

\* ------------------------------------------------------------- assignment
\* Variant: the old target is released before the new one is counted.
assign_begin_ReleaseFirst(c) ==
  /\ live[c.w]
  /\ Enter(c)
  /\ SetHeap(AddRefIf(ReleaseIf(Heap0, ptr_[c.w]), c.p))
  /\ pc' = "assign_store"
  /\ UNCHANGED <<live, ptr_, slot, tmp>>

\* operator=(T* p), first statement: if (p) p->AddRef();
\* c names the assignment, the wrapper assigned to and the pointer p.
assign_begin(c) ==
  /\ live[c.w]
  /\ Enter(c)
  /\ SetHeap(AddRefIf(Heap0, c.p))
  /\ pc' = "assign_release"
  /\ UNCHANGED <<live, ptr_, slot, tmp>>

\* scoped_refptr<T>& operator=(T* p)
assign_raw(w, p) ==
  /\ p \in RawPtrs
  /\ assign_begin(Op("assign_raw", w, 0, p, 0, NULL))

\* Variant: the copy assignment takes r's pointer without counting it.
assign_copy_NoAddRef(w, r) ==
  /\ live[r]
  /\ live[w]
  /\ Enter(Op("assign_copy", w, r, ptr_[r], 0, NULL))
  /\ SetHeap(Heap0)
  /\ pc' = "assign_release"
  /\ UNCHANGED <<live, ptr_, slot, tmp>>

\* scoped_refptr<T>& operator=(const scoped_refptr<T>& r)
\*   { return *this = r.ptr_; }
assign_copy(w, r) ==
  /\ live[r]
  /\ assign_begin(Op("assign_copy", w, r, ptr_[r], 0, NULL))

\* Variant: the assignment overwrites ptr_ without releasing the old target.
assign_release_Skip ==
  /\ pc = "assign_release"
  /\ ~uaf
  /\ pc' = "assign_store"
  /\ UNCHANGED <<count, destroyed, calls, uaf, held, live, ptr_, slot, tmp,
                 cur, pre, prev, phase, owner, thr>>

\* operator=(T* p), second statement: if (ptr_) ptr_->Release();
assign_release ==
  /\ pc = "assign_release"
  /\ ~uaf
  /\ SetHeap(ReleaseIf(Heap, ptr_[cur.w]))
  /\ pc' = "assign_store"
  /\ UNCHANGED <<live, ptr_, slot, tmp, cur, pre, prev, phase, owner, thr>>

\* Variant: the copy assignment reads r.ptr_ again when it stores, after the
\* Release; reading a wrapper whose object is destroyed is undefined.
assign_store_Reread ==
  /\ pc = "assign_store"
  /\ ~uaf
  /\ LET gone == IF cur.op = "assign_copy" /\ owner[cur.r] # NULL
                   THEN destroyed[owner[cur.r]] > 0
                   ELSE FALSE
     IN /\ uaf' = gone
        /\ ptr_' = [ptr_ EXCEPT ![cur.w] = IF cur.op = "assign_copy" /\ ~gone
                                             THEN ptr_[cur.r] ELSE cur.p]
  /\ pc' = "idle"
  /\ UNCHANGED <<count, destroyed, calls, held, live, slot, tmp, cur,
                 pre, prev, phase, owner, thr>>

\* operator=(T* p), third statement: ptr_ = p; return *this;
assign_store ==
  /\ pc = "assign_store"
  /\ ~uaf
  /\ ptr_' = [ptr_ EXCEPT ![cur.w] = cur.p]
  /\ pc' = "idle"
  /\ UNCHANGED <<count, destroyed, calls, uaf, held, live, slot, tmp, cur,
                 pre, prev, phase, owner, thr>>

\* Variant: the temporary of the move assignment is copy constructed.
assign_move_CopyTemp(w, r) ==
  /\ live[w]
  /\ live[r]
  /\ Enter(Op("assign_move", w, r, NULL, 0, NULL))
  /\ tmp' = ptr_[r]
  /\ SetHeap(AddRefIf(Heap0, ptr_[r]))
  /\ pc' = "move_swap"
  /\ UNCHANGED <<live, ptr_, slot>>

\* scoped_refptr<T>& operator=(scoped_refptr<T>&& r) noexcept
\*   { scoped_refptr<T>(std::move(r)).swap(*this); return *this; }
\* First the temporary is move constructed from r: tmp.ptr_(r.release()).
assign_move(w, r) ==
  /\ live[w]
  /\ live[r]
  /\ Enter(Op("assign_move", w, r, NULL, 0, NULL))
  /\ tmp' = ptr_[r]
  /\ ptr_' = [ptr_ EXCEPT ![r] = NULL]
  /\ SetHeap(Heap0)
  /\ pc' = "move_swap"
  /\ UNCHANGED <<live, slot>>

\* Variant: the temporary is stored into *this instead of swapped with it.
move_swap_Store ==
  /\ pc = "move_swap"
  /\ ~uaf
  /\ ptr_' = [ptr_ EXCEPT ![cur.w] = tmp]
  /\ pc' = "move_dtor"
  /\ UNCHANGED <<count, destroyed, calls, uaf, held, live, slot, tmp, cur,
                 pre, prev, phase, owner, thr>>

\* operator=(scoped_refptr<T>&&): the temporary's swap(*this).
move_swap ==
  /\ pc = "move_swap"
  /\ ~uaf
  /\ tmp' = ptr_[cur.w]
  /\ ptr_' = [ptr_ EXCEPT ![cur.w] = tmp]
  /\ pc' = "move_dtor"
  /\ UNCHANGED <<count, destroyed, calls, uaf, held, live, slot, cur, pre,
                 prev, phase, owner, thr>>

\* Variant: the temporary goes away without releasing what it holds.
move_dtor_NoRelease ==
  /\ pc = "move_dtor"
  /\ ~uaf
  /\ tmp' = NULL
  /\ pc' = "idle"
  /\ UNCHANGED <<count, destroyed, calls, uaf, held, live, ptr_, slot, cur,
                 pre, prev, phase, owner, thr>>

\* operator=(scoped_refptr<T>&&): the temporary is destroyed at the end of
\* the full expression.
move_dtor ==
  /\ pc = "move_dtor"
  /\ ~uaf
  /\ SetHeap(ReleaseIf(Heap, tmp))
  /\ tmp' = NULL
  /\ pc' = "idle"
  /\ UNCHANGED <<live, ptr_, slot, cur, pre, prev, phase, owner, thr>>

\* ------------------------------------------------------------------- swap
\* void swap(T** pp) noexcept { T* p = ptr_; ptr_ = *pp; *pp = p; }
\* with pp the address of the caller's raw pointer variable s.
swap_raw(w, s) ==
  /\ live[w]
  /\ Enter(Op("swap_raw", w, 0, NULL, s, NULL))
  /\ ptr_' = [ptr_ EXCEPT ![w] = slot[s]]
  /\ slot' = [slot EXCEPT ![s] = ptr_[w]]
  /\ SetHeap(Heap0)
  /\ UNCHANGED <<live, tmp, pc>>

\* Variant: swap stores r's pointer and does not write its own back.
swap_OneWay(w, r) ==
  /\ live[w]
  /\ live[r]
  /\ Enter(Op("swap", w, r, NULL, 0, NULL))
  /\ ptr_' = [ptr_ EXCEPT ![w] = ptr_[r]]
  /\ SetHeap(Heap0)
  /\ UNCHANGED <<live, slot, tmp, pc>>

\* void swap(scoped_refptr<T>& r) noexcept { swap(&r.ptr_); }
\* The three statements of swap(T**) run on the two members in order, which
\* matters when r is the wrapper itself.
swap(w, r) ==
  /\ live[w]
  /\ live[r]
  /\ Enter(Op("swap", w, r, NULL, 0, NULL))
  /\ LET p == ptr_[w]
         m1 == [ptr_ EXCEPT ![w] = ptr_[r]]
     IN ptr_' = [m1 EXCEPT ![r] = p]
  /\ SetHeap(Heap0)
  /\ UNCHANGED <<live, slot, tmp, pc>>

Next ==
  \/ \E w \in W : scoped_refptr_default(w)
  \/ \E w \in W, p \in Ptr : scoped_refptr_raw(w, p)
  \/ \E w \in W, r \in W : scoped_refptr_copy(w, r)
  \/ \E w \in W, r \in W : scoped_refptr_move(w, r)
  \/ \E w \in W : dtor(w)
  \/ \E w \in W : get(w)
  \/ \E w \in W, s \in Slot : release(w, s)
  \/ \E s \in Slot : caller_Release(s)
  \/ \E w \in W, p \in Ptr : assign_raw(w, p)
  \/ \E w \in W, r \in W : assign_copy(w, r)
  \/ assign_release
  \/ assign_store
  \/ \E w \in W, r \in W : assign_move(w, r)
  \/ move_swap
  \/ move_dtor
  \/ \E w \in W, s \in Slot : swap_raw(w, s)
  \/ \E w \in W, r \in W : swap(w, r)

Spec == Init /\ [][Next]_vars

\* ------------------------------------------- wrappers as members of objects
\* A wrapper exists while it is constructed and, for a data member, while
\* the object it is a member of is not destroyed.
MLive(w) ==
  live[w] /\ (IF owner[w] = NULL THEN TRUE ELSE destroyed[owner[w]] = 0)

\* Which wrappers are data members (T::next) of which objects: the first
\* wrapper is a variable of the calling code, no object has two modelled
\* members, at least one wrapper is a member.
MemberLayouts ==
  {f \in [W -> Ptr] :
     /\ f[1] = NULL
     /\ \E w \in W : f[w] # NULL
     /\ \A w1, w2 \in W : (w1 # w2 /\ f[w1] # NULL) => f[w1] # f[w2]}

\* Objects exist with their member wrappers default constructed (null); no
\* wrapper of the calling code is constructed yet.
InitMember ==
  /\ owner \in MemberLayouts
  /\ live = [w \in W |-> owner[w] # NULL]
  /\ count = [o \in Obj |-> 0]
  /\ destroyed = [o \in Obj |-> 0]
  /\ ptr_ = [w \in W |-> NULL]
  /\ slot = [s \in Slot |-> NULL]
  /\ tmp = NULL
  /\ pc = "idle"
  /\ cur = NoOp
  /\ calls = <<>>
  /\ pre = InitSnap
  /\ prev = NoPrev
  /\ phase = NoPhase
  /\ uaf = FALSE
  /\ held = {}
  /\ thr = [t \in Thread |-> NoThread]

\* The calling code builds singly linked lists whose links run from lower to
\* higher objects (no cycles), holds them in its own wrappers and walks them
\* with w = w->next.
NextMember ==
  \/ \E w \in W, p \in Ptr :
       owner[w] = NULL /\ scoped_refptr_raw(w, p)
  \/ \E w \in W, p \in Ptr :
       /\ MLive(w) /\ owner[w] # NULL
       /\ p = NULL \/ p > owner[w]
       /\ assign_raw(w, p)
  \/ \E w \in W, r \in W :
       /\ owner[w] = NULL
       /\ MLive(r)
       /\ assign_copy(w, r)
  \/ assign_release
  \/ assign_store
  \/ \E w \in W : owner[w] = NULL /\ dtor(w)

SpecMember == InitMember /\ [][NextMember]_vars

\* ------------------------------------------------- wrappers in threads
\* Each thread owns its wrapper places; the threads share the counted
\* object and nothing else.  AddRef and Release are atomic on the count;
\* the thread whose Release takes the count to zero deletes the object.
SharedObj == 1

\* The state of the other threads and of the calling code is left alone.
ThreadStep(t, rec) ==
  /\ ~uaf
  /\ thr' = [thr EXCEPT ![t] = rec]
  /\ UNCHANGED <<live, ptr_, slot, tmp, pc, cur, pre, prev, phase, owner>>

\* Every thread starts with one wrapper holding its own reference to the
\* shared object.
InitThreads ==
  /\ count = [o \in Obj |-> IF o = SharedObj THEN NumThread ELSE 0]
  /\ destroyed = [o \in Obj |-> 0]
  /\ held = {SharedObj}
  /\ thr = [t \in Thread |->
             [NoThread EXCEPT !.live[1] = TRUE, !.ptr[1] = SharedObj]]
  /\ live = [w \in W |-> FALSE]
  /\ ptr_ = [w \in W |-> NULL]
  /\ slot = [s \in Slot |-> NULL]
  /\ tmp = NULL
  /\ pc = "idle"
  /\ cur = NoOp
  /\ calls = <<>>
  /\ pre = InitSnap
  /\ prev = NoPrev
  /\ phase = NoPhase
  /\ uaf = FALSE
  /\ owner = [w \in W |-> NULL]

\* scoped_refptr(const scoped_refptr<T>& r) : ptr_(r.ptr_), in thread t from
\* its wrapper k into its place j: the member initialiser.
t_copy(t, k, j) ==
  /\ thr[t].pc = "idle"
  /\ thr[t].live[k]
  /\ ~thr[t].live[j]
  /\ ThreadStep(t, [thr[t] EXCEPT !.pc = "copy_addref", !.k = j,
                                  !.live[j] = TRUE, !.ptr[j] = thr[t].ptr[k]])
  /\ UNCHANGED <<count, destroyed, calls, uaf, held>>

\* Variant: the copy constructor body does not call AddRef.
t_copy_AddRef_Skip(t) ==
  /\ thr[t].pc = "copy_addref"
  /\ ThreadStep(t, [thr[t] EXCEPT !.pc = "idle", !.k = 0])
  /\ UNCHANGED <<count, destroyed, calls, uaf, held>>

\* scoped_refptr(const scoped_refptr<T>& r): the body,
\* if (ptr_) ptr_->AddRef();
t_copy_AddRef(t) ==
  /\ thr[t].pc = "copy_addref"
  /\ ThreadStep(t, [thr[t] EXCEPT !.pc = "idle", !.k = 0])
  /\ SetHeap(AddRefIf(Heap0, thr[t].ptr[thr[t].k]))

\* The atomic decrement of T::Release().
AtomicDec(h, o) ==
  IF h.destroyed[o] > 0
    THEN [h EXCEPT !.uaf = TRUE, !.calls = Append(@, <<"Release", o>>)]
    ELSE [h EXCEPT !.count[o] = @ - 1, !.calls = Append(@, <<"Release", o>>)]

\* ~scoped_refptr() { if (ptr_) ptr_->Release(); } in thread t on its
\* wrapper k: the decrement of Release; a thread that brings the count to
\* zero goes on to delete the object.
t_dtor(t, k) ==
  /\ thr[t].pc = "idle"
  /\ thr[t].live[k]
  /\ LET o == thr[t].ptr[k]
         h == IF o # NULL THEN AtomicDec(Heap0, o) ELSE Heap0
         zero == IF o # NULL THEN ~h.uaf /\ h.count[o] = 0 ELSE FALSE
     IN /\ SetHeap(h)
        /\ ThreadStep(t, [thr[t] EXCEPT
                            !.pc = IF zero THEN "dtor_delete" ELSE "idle",
                            !.k = IF zero THEN k ELSE 0,
                            !.live[k] = FALSE,
                            !.ptr[k] = IF zero THEN o ELSE NULL])

\* T::Release(): the count reached zero in this thread, delete this.
t_dtor_delete(t) ==
  /\ thr[t].pc = "dtor_delete"
  /\ ThreadStep(t, [thr[t] EXCEPT !.pc = "idle", !.k = 0,
                                  !.ptr[thr[t].k] = NULL])
  /\ destroyed' = [destroyed EXCEPT ![thr[t].ptr[thr[t].k]] = @ + 1]
  /\ UNCHANGED <<count, calls, uaf, held>>

NextThreads ==
  \/ \E t \in Thread, k \in TPlace, j \in TPlace : t_copy(t, k, j)
  \/ \E t \in Thread : t_copy_AddRef(t)
  \/ \E t \in Thread, k \in TPlace : t_dtor(t, k)
  \/ \E t \in Thread : t_dtor_delete(t)

SpecThreads == InitThreads /\ [][NextThreads]_vars

\* ------------------------------------------------------------- properties
\* The live wrappers whose ptr_ is o.
WrappersOn(o) == {w \in W : live[w] /\ ptr_[w] = o}

\* The caller's raw pointers that own a reference to o: handed out by
\* release() or by swap(T**) and not yet decremented.
SlotsOn(o) == {s \in Slot : slot[s] = o}

Idle == pc = "idle"

Constructors == {"scoped_refptr_default", "scoped_refptr_raw",
                 "scoped_refptr_copy", "scoped_refptr_move"}

\* C1: between operations, the count of every object that has not been
\* destroyed equals the number of live wrappers holding it plus the number of
\* references the caller received and has not yet decremented.
C1_ReferenceBalance ==
  Idle => \A o \in Obj :
            destroyed[o] = 0 =>
              count[o] = Cardinality(WrappersOn(o)) + Cardinality(SlotsOn(o))

\* A wrapper and a released reference share an object of count 2.
C1_Witness ==
  /\ Idle
  /\ \E o \in Obj : /\ count[o] = 2
                    /\ Cardinality(WrappersOn(o)) = 1
                    /\ Cardinality(SlotsOn(o)) = 1

\* The running or last operation is a self-assignment (a = a, or
\* a = a.get()) of a wrapper that held the only reference to its object.
SoleSelfAssign ==
  /\ \/ cur.op = "assign_copy" /\ cur.r = cur.w
     \/ cur.op = "assign_raw" /\ cur.p = pre.ptr_[cur.w]
  /\ cur.p # NULL
  /\ pre.ptr_[cur.w] = cur.p
  /\ pre.count[cur.p] = 1

\* C2: during a self-assignment of a wrapper holding the sole reference the
\* count never reaches zero at any statement and the object is not destroyed;
\* when the assignment returns, count and get() are what they were.
C2_SelfAssignSafe ==
  SoleSelfAssign =>
    /\ count[cur.p] >= 1
    /\ destroyed[cur.p] = 0
    /\ ~uaf
    /\ Idle => /\ count[cur.p] = 1
               /\ ptr_[cur.w] = cur.p
               /\ live[cur.w]

\* A sole-reference self-assignment has issued its Release and returned.
C2_Witness ==
  /\ SoleSelfAssign
  /\ Idle
  /\ calls = << <<"AddRef", cur.p>>, <<"Release", cur.p>> >>

\* C3: constructing from a non-null raw pointer p raises p's count by exactly
\* one (one AddRef, nothing else) and get() is p; constructing from nullptr
\* issues no call and gives a null wrapper.
C3_RawConstruct ==
  cur.op = "scoped_refptr_raw" =>
    /\ live[cur.w]
    /\ ptr_[cur.w] = cur.p
    /\ cur.p # NULL =>
         /\ count[cur.p] = pre.count[cur.p] + 1
         /\ calls = << <<"AddRef", cur.p>> >>
         /\ \A o \in Obj \ {cur.p} : count[o] = pre.count[o]
    /\ cur.p = NULL => calls = <<>> /\ count = pre.count

\* A wrapper was constructed from a pointer to an object already referenced.
C3_Witness ==
  /\ cur.op = "scoped_refptr_raw"
  /\ cur.p # NULL
  /\ pre.count[cur.p] = 1
  /\ count[cur.p] = 2

\* C4: copy constructing b from a raises the count of a's object by one,
\* leaves a alone and makes b.get() == a.get(); destroying b right after
\* brings the count back to its value before the copy; copying a null
\* wrapper issues no call.
C4_CopyConstruct ==
  /\ cur.op = "scoped_refptr_copy" =>
       LET o == pre.ptr_[cur.r] IN
         /\ ptr_[cur.r] = o
         /\ ptr_[cur.w] = ptr_[cur.r]
         /\ live[cur.w] /\ live[cur.r]
         /\ o # NULL => /\ count[o] = pre.count[o] + 1
                        /\ calls = << <<"AddRef", o>> >>
         /\ o = NULL => calls = <<>> /\ count = pre.count
  /\ ( /\ cur.op = "dtor"
       /\ prev.op.op = "scoped_refptr_copy"
       /\ cur.w = prev.op.w ) =>
       LET o == prev.pre.ptr_[prev.op.r] IN
         o # NULL => /\ count[o] = prev.pre.count[o]
                     /\ destroyed[o] = 0
                     /\ ptr_[prev.op.r] = o

\* b was copy constructed from a non-null a and destroyed right after.
C4_Witness ==
  /\ cur.op = "dtor"
  /\ prev.op.op = "scoped_refptr_copy"
  /\ cur.w = prev.op.w
  /\ prev.pre.ptr_[prev.op.r] # NULL

\* C5: move constructing b from a leaves a null, changes no count, issues no
\* call, and b.get() is what a.get() was.
C5_MoveConstruct ==
  cur.op = "scoped_refptr_move" =>
    /\ ptr_[cur.r] = NULL
    /\ live[cur.r] /\ live[cur.w]
    /\ ptr_[cur.w] = pre.ptr_[cur.r]
    /\ count = pre.count
    /\ destroyed = pre.destroyed
    /\ calls = <<>>

\* A wrapper was move constructed from a non-null wrapper.
C5_Witness ==
  /\ cur.op = "scoped_refptr_move"
  /\ pre.ptr_[cur.r] # NULL
  /\ ptr_[cur.w] = pre.ptr_[cur.r]
\* C6: release() returns the stored pointer, nulls the wrapper and issues no
\* call, so every count is unchanged.  The reference is then the caller's:
\* while the caller holds it the object is not destroyed, whatever happens to
\* the wrappers; once the caller has decremented it and no wrapper holds the
\* object, the object is destroyed.
C6_Release ==
  /\ cur.op = "release" =>
       /\ cur.ret = pre.ptr_[cur.w]
       /\ slot[cur.s] = cur.ret
       /\ ptr_[cur.w] = NULL
       /\ live[cur.w]
       /\ calls = <<>>
       /\ count = pre.count
       /\ destroyed = pre.destroyed
  /\ \A s \in Slot : slot[s] # NULL =>
       destroyed[slot[s]] = 0 /\ count[slot[s]] >= 1
  /\ (cur.op = "caller_Release" /\ WrappersOn(cur.p) = {}
        /\ SlotsOn(cur.p) = {}) =>
       destroyed[cur.p] = 1 /\ count[cur.p] = 0

\* w1 held O at count 1 and release() has handed the reference out.
C6_Witness ==
  /\ cur.op = "release"
  /\ cur.ret # NULL
  /\ pre.count[cur.ret] = 1
  /\ count[cur.ret] = 1
  /\ ptr_[cur.w] = NULL

\* The calls a completed move assignment a = std::move(r) has issued when
\* the old target of a is decremented exactly once and nothing is
\* incremented.
MoveAssignCalls ==
  IF pre.ptr_[cur.w] # NULL THEN << <<"Release", pre.ptr_[cur.w]>> >>
                            ELSE <<>>

\* C7 as stated, for every pair a, r: the old target of a is decremented
\* once, r ends null, a.get() is r's former target, no AddRef is issued.
C7_MoveAssignAnyPair ==
  (cur.op = "assign_move" /\ Idle) =>
    /\ calls = MoveAssignCalls
    /\ ptr_[cur.r] = NULL
    /\ ptr_[cur.w] = pre.ptr_[cur.r]

\* C7 amended: for a and r distinct wrappers, a = std::move(r) decrements
\* the old target of a exactly once (if it is non-null), leaves r null and
\* a.get() equal to r's former target; no move assignment, of distinct
\* wrappers or not, issues an AddRef at any statement.
C7_MoveAssign ==
  /\ cur.op = "assign_move" =>
       \A i \in 1..Len(calls) : calls[i][1] # "AddRef"
  /\ (cur.op = "assign_move" /\ Idle /\ cur.w # cur.r) =>
       /\ calls = MoveAssignCalls
       /\ ptr_[cur.r] = NULL
       /\ live[cur.r] /\ live[cur.w]
       /\ ptr_[cur.w] = pre.ptr_[cur.r]
       /\ \A o \in Obj :
            count[o] = pre.count[o] - (IF o = pre.ptr_[cur.w] THEN 1 ELSE 0)

\* A move assignment between two wrappers holding different objects is done.
C7_Witness ==
  /\ cur.op = "assign_move"
  /\ Idle
  /\ cur.w # cur.r
  /\ pre.ptr_[cur.w] # NULL
  /\ pre.ptr_[cur.r] # NULL
  /\ pre.ptr_[cur.w] # pre.ptr_[cur.r]

\* C8: swap exchanges the two ptr_ values, issues no call and changes no
\* count; the same swap twice restores the state before the first; the raw
\* slot form exchanges ptr_ with the slot and issues no call either.
C8_Swap ==
  /\ cur.op = "swap" =>
       /\ ptr_[cur.w] = pre.ptr_[cur.r]
       /\ ptr_[cur.r] = pre.ptr_[cur.w]
       /\ \A x \in W \ {cur.w, cur.r} : ptr_[x] = pre.ptr_[x]
       /\ calls = <<>>
       /\ count = pre.count /\ destroyed = pre.destroyed
       /\ live = pre.live /\ slot = pre.slot
  /\ ( /\ cur.op = "swap" /\ prev.op.op = "swap"
       /\ {cur.w, cur.r} = {prev.op.w, prev.op.r} ) =>
       /\ ptr_ = prev.pre.ptr_
       /\ count = prev.pre.count
       /\ live = prev.pre.live /\ slot = prev.pre.slot
  /\ cur.op = "swap_raw" =>
       /\ ptr_[cur.w] = pre.slot[cur.s]
       /\ slot[cur.s] = pre.ptr_[cur.w]
       /\ \A x \in W \ {cur.w} : ptr_[x] = pre.ptr_[x]
       /\ calls = <<>>
       /\ count = pre.count /\ destroyed = pre.destroyed
       /\ live = pre.live

\* Two wrappers with different targets were swapped and swapped back.
C8_Witness ==
  /\ cur.op = "swap" /\ prev.op.op = "swap"
  /\ cur.w = prev.op.w /\ cur.r = prev.op.r
  /\ cur.w # cur.r
  /\ ptr_[cur.w] # ptr_[cur.r]
  /\ ptr_[cur.w] # NULL

\* C9: an object is destroyed exactly when an operation drops its last
\* reference: never while its count is positive, never twice, and always when
\* a Release takes the count from one to zero.  In the header's example
\* (w1 from a fresh O, w2 = w1, w1 = nullptr, w2 destroyed) the counts are
\* 1, 2, 1 with w1 null and O alive, and then 0 with O destroyed.
C9_Lifecycle ==
  /\ \A o \in Obj :
       /\ destroyed[o] <= 1
       /\ destroyed[o] = 1 => count[o] = 0
       /\ destroyed[o] > pre.destroyed[o] => pre.count[o] >= 1
       /\ (pre.count[o] >= 1 /\ count[o] = 0) => destroyed[o] = 1
       /\ (Idle /\ destroyed[o] = 1) => WrappersOn(o) = {} /\ SlotsOn(o) = {}
  /\ (Idle /\ phase.n = 1) =>
       count[phase.o] = 1 /\ ptr_[phase.w1] = phase.o
  /\ (Idle /\ phase.n = 2) =>
       count[phase.o] = 2 /\ ptr_[phase.w2] = phase.o
  /\ (Idle /\ phase.n = 3) =>
       /\ count[phase.o] = 1
       /\ ptr_[phase.w1] = NULL /\ live[phase.w1]
       /\ destroyed[phase.o] = 0
  /\ (Idle /\ phase.n = 4) =>
       count[phase.o] = 0 /\ destroyed[phase.o] = 1

\* The example has run to its end.
C9_Witness ==
  /\ Idle
  /\ phase.n = 4
  /\ cur.op = "dtor"
  /\ destroyed[phase.o] = 1

\* C10: the destructor calls Release on its target exactly once when the
\* target is non-null and issues no call when it is null; it touches nothing
\* else, and every later operation at that place starts with a constructor.
C10_Destructor ==
  /\ cur.op = "dtor" =>
       /\ calls = IF pre.ptr_[cur.w] # NULL
                    THEN << <<"Release", pre.ptr_[cur.w]>> >>
                    ELSE <<>>
       /\ ~live[cur.w]
       /\ \A x \in W \ {cur.w} : ptr_[x] = pre.ptr_[x] /\ live[x] = pre.live[x]
       /\ slot = pre.slot
       /\ \A o \in Obj \ {pre.ptr_[cur.w]} : count[o] = pre.count[o]
  /\ (cur.op \notin Constructors \cup {"none", "caller_Release"}) =>
       pre.live[cur.w]
  /\ (cur.op \in {"scoped_refptr_copy", "scoped_refptr_move", "assign_copy",
                  "assign_move", "swap"}) => pre.live[cur.r]

\* A wrapper holding one of two references to its object was destroyed.
C10_Witness ==
  /\ cur.op = "dtor"
  /\ pre.ptr_[cur.w] # NULL
  /\ pre.count[pre.ptr_[cur.w]] = 2
  /\ count[pre.ptr_[cur.w]] = 1

\* The calls operator=(T* p) issues on a wrapper whose target was old: AddRef
\* on p first, Release on old second, each only for a non-null pointer.
AssignCalls(p, old) ==
  (IF p # NULL THEN << <<"AddRef", p>> >> ELSE <<>>)
    \o (IF old # NULL THEN << <<"Release", old>> >> ELSE <<>>)

\* C12: a = r has the effect of a = r.get(): the pointer assigned is r's,
\* afterwards a.get() == r.get(), r is unchanged and both wrappers hold the
\* object; with different old and new targets the new one gains one
\* reference and the old one loses one, with the same target nothing changes.
C12_CopyAssign ==
  cur.op = "assign_copy" =>
    LET old == pre.ptr_[cur.w]
        new == pre.ptr_[cur.r]
    IN /\ cur.p = new
       /\ Idle =>
            /\ calls = AssignCalls(new, old)
            /\ ptr_[cur.w] = new
            /\ ptr_[cur.r] = new
            /\ live[cur.w] /\ live[cur.r]
            /\ \A x \in W \ {cur.w} : ptr_[x] = pre.ptr_[x]
            /\ new # NULL => /\ destroyed[new] = 0
                             /\ {cur.w, cur.r} \subseteq WrappersOn(new)
            /\ \A o \in Obj :
                 count[o] = pre.count[o]
                            + (IF o = new /\ o # old THEN 1 ELSE 0)
                            - (IF o = old /\ o # new THEN 1 ELSE 0)

\* b = a was completed for two wrappers that held different objects.
C12_Witness ==
  /\ cur.op = "assign_copy"
  /\ Idle
  /\ cur.w # cur.r
  /\ pre.ptr_[cur.w] # NULL
  /\ pre.ptr_[cur.r] # NULL
  /\ pre.ptr_[cur.w] # pre.ptr_[cur.r]
  /\ ptr_[cur.w] = ptr_[cur.r]

\* C13: in a raw pointer or copy assignment the AddRef on the new target
\* comes before the Release on the old one, and ptr_ is written after both:
\* after the first statement only the AddRef has been issued, after the
\* second the Release follows it, and until the third ptr_ is the old target.
C13_AssignOrder ==
  cur.op \in {"assign_raw", "assign_copy"} =>
    LET old == pre.ptr_[cur.w] IN
      /\ pc \in {"assign_release", "assign_store", "idle"}
      /\ pc = "assign_release" =>
           /\ calls = AssignCalls(cur.p, NULL)
           /\ ptr_[cur.w] = old
      /\ pc = "assign_store" =>
           /\ calls = AssignCalls(cur.p, old)
           /\ ptr_[cur.w] = old
      /\ pc = "idle" =>
           /\ calls = AssignCalls(cur.p, old)
           /\ ptr_[cur.w] = cur.p

\* Both calls of an assignment between different objects are issued and the
\* pointer is not stored yet.
C13_Witness ==
  /\ cur.op \in {"assign_raw", "assign_copy"}
  /\ pc = "assign_store"
  /\ cur.p # NULL
  /\ pre.ptr_[cur.w] # NULL
  /\ cur.p # pre.ptr_[cur.w]
  /\ calls = << <<"AddRef", cur.p>>, <<"Release", pre.ptr_[cur.w]>> >>
  /\ ptr_[cur.w] = pre.ptr_[cur.w]

\* C14: get(), the conversion to T* and operator-> return ptr_ and change
\* nothing: no wrapper, no raw pointer of the caller, no count; the default
\* constructor gives a null wrapper and issues no call either.
C14_Accessors ==
  /\ cur.op = "get" =>
       /\ cur.ret = pre.ptr_[cur.w]
       /\ ptr_ = pre.ptr_ /\ live = pre.live /\ slot = pre.slot
       /\ count = pre.count /\ destroyed = pre.destroyed
       /\ calls = <<>>
  /\ cur.op = "scoped_refptr_default" =>
       /\ live[cur.w] /\ ptr_[cur.w] = NULL
       /\ \A x \in W \ {cur.w} : ptr_[x] = pre.ptr_[x] /\ live[x] = pre.live[x]
       /\ slot = pre.slot
       /\ count = pre.count /\ destroyed = pre.destroyed
       /\ calls = <<>>

\* get() returned the target of a wrapper that shares its object.
C14_Witness ==
  /\ cur.op = "get"
  /\ cur.ret # NULL
  /\ count[cur.ret] = 2

\* C15 as stated: with callers that pass pointers to live objects only and
\* decrement a released reference at most once, in every state, the states
\* inside an operation included, the non-null ptr_ of every live wrapper is an
\* object that is not destroyed and has a count of at least one, and no
\* AddRef or Release is issued on a destroyed object.  In operator=(T*) the
\* Release of line 127 can destroy the old target while ptr_ still names it
\* until the store of line 128.
C15_NoDanglingEveryState ==
  /\ ~uaf
  /\ \A i \in 1..Len(calls) :
       pre.destroyed[calls[i][2]] = 0
  /\ \A w \in W :
       (live[w] /\ ptr_[w] # NULL) =>
         destroyed[ptr_[w]] = 0 /\ count[ptr_[w]] >= 1

\* C15: with callers that pass pointers to live objects only and decrement a
\* released reference at most once, no AddRef or Release is ever issued on a
\* destroyed object, and between operations the non-null ptr_ of every live
\* wrapper is an object that is not destroyed and has a count of at least
\* one.  Inside an operation the same holds of every wrapper but the one
\* being assigned by operator=(T*) between its Release and its store: that
\* one still names its old target, which the Release of this operation was
\* the last call on, and the store that follows replaces it.  The temporary
\* of a move assignment names a live object until it is destroyed.
C15_NoDangling ==
  /\ ~uaf
  /\ \A i \in 1..Len(calls) :
       pre.destroyed[calls[i][2]] = 0
  /\ \A w \in W :
       (live[w] /\ ptr_[w] # NULL
          /\ ~(pc = "assign_store" /\ w = cur.w)) =>
         destroyed[ptr_[w]] = 0 /\ count[ptr_[w]] >= 1
  /\ (pc = "assign_store" /\ live[cur.w] /\ ptr_[cur.w] # NULL) =>
       /\ ptr_[cur.w] = pre.ptr_[cur.w]
       /\ pre.destroyed[ptr_[cur.w]] = 0
       /\ destroyed[ptr_[cur.w]] = 1 =>
            /\ count[ptr_[cur.w]] = 0
            /\ calls[Len(calls)] = <<"Release", ptr_[cur.w]>>
  /\ (pc = "move_dtor" /\ tmp # NULL) =>
       destroyed[tmp] = 0 /\ count[tmp] >= 1

\* One of two wrappers on an object was destroyed and the other still holds
\* the object, while another object has already been destroyed.
C15_Witness ==
  /\ cur.op = "dtor"
  /\ pre.ptr_[cur.w] # NULL
  /\ \E w \in W : live[w] /\ ptr_[w] = pre.ptr_[cur.w]
  /\ \E o \in Obj : destroyed[o] = 1

\* C17: a = std::move(a) issues no call and changes no count at any
\* statement: the temporary takes the pointer and leaves a null, the swap
\* gives it back and leaves the temporary null, the temporary is destroyed
\* null, and a holds what it held.
C17_SelfMoveAssign ==
  (cur.op = "assign_move" /\ cur.w = cur.r) =>
    /\ calls = <<>>
    /\ count = pre.count
    /\ destroyed = pre.destroyed
    /\ live[cur.w]
    /\ pc = "move_swap" => tmp = pre.ptr_[cur.w] /\ ptr_[cur.w] = NULL
    /\ pc = "move_dtor" => tmp = NULL /\ ptr_[cur.w] = pre.ptr_[cur.w]
    /\ pc = "idle" => tmp = NULL /\ ptr_[cur.w] = pre.ptr_[cur.w]

\* A wrapper holding an object was move assigned to itself.
C17_Witness ==
  /\ cur.op = "assign_move"
  /\ cur.w = cur.r
  /\ Idle
  /\ ptr_[cur.w] # NULL
  /\ count[ptr_[cur.w]] = 1

\* No wrapper is constructed, no operation is running and the caller has
\* decremented every reference it received.
Quiescent ==
  /\ Idle
  /\ \A w \in W : ~live[w]
  /\ \A s \in Slot : slot[s] = NULL

\* C18: no object is destroyed twice and none is released after its
\* destruction; once every wrapper is destroyed and the caller has
\* decremented every released reference, every object that was ever
\* referenced has been destroyed exactly once.
C18_NoLeakNoDoubleFree ==
  /\ \A o \in Obj : destroyed[o] <= 1
  /\ ~uaf
  /\ Quiescent => \A o \in held : destroyed[o] = 1 /\ count[o] = 0

\* Every object was referenced and is destroyed; the last reference dropped
\* was one the caller had received.
C18_Witness ==
  /\ Quiescent
  /\ cur.op = "caller_Release"
  /\ held = Obj
  /\ \A o \in Obj : destroyed[o] = 1

\* The running or last operation is w = w->next: a copy assignment to a
\* wrapper of the calling code from the member wrapper of the object that w
\* alone referenced.
WalkStep ==
  /\ cur.op = "assign_copy"
  /\ owner[cur.w] = NULL
  /\ pre.ptr_[cur.w] # NULL
  /\ owner[cur.r] = pre.ptr_[cur.w]
  /\ pre.count[pre.ptr_[cur.w]] = 1

\* C16: in w = w->next the Release of the old target destroys it and the
\* member wrapper assigned from; the assignment still completes without
\* touching a destroyed object, w ends holding the former target of the
\* member (the pointer read before the Release), that target is alive and
\* its count is what it was before the assignment.
C16_AssignFromOwnedMember ==
  /\ ~uaf
  /\ WalkStep =>
       LET old == pre.ptr_[cur.w]
           x == pre.ptr_[cur.r]
       IN /\ cur.p = x
          /\ pc = "assign_release" =>
               /\ destroyed[old] = 0
               /\ x # NULL => count[x] = pre.count[x] + 1
          /\ pc \in {"assign_store", "idle"} =>
               /\ destroyed[old] = 1
               /\ ~MLive(cur.r)
               /\ calls = AssignCalls(x, old) \o AssignCalls(NULL, x)
               /\ x # NULL => /\ destroyed[x] = 0
                              /\ count[x] = pre.count[x]
                              /\ count[x] >= 1
          /\ pc = "idle" => ptr_[cur.w] = x /\ live[cur.w]

\* w = w->next has completed on a list node whose successor was referenced
\* by the node alone.
C16_Witness ==
  /\ WalkStep
  /\ Idle
  /\ cur.p # NULL
  /\ pre.count[cur.p] = 1
  /\ count[cur.p] = 1
  /\ ptr_[cur.w] = cur.p
  /\ destroyed[pre.ptr_[cur.w]] = 1

\* The wrappers of all threads that are constructed and hold o.
ThreadWrappersOn(o) ==
  {x \in Thread \X TPlace : thr[x[1]].live[x[2]] /\ thr[x[1]].ptr[x[2]] = o}

\* The thread wrappers on o whose constructor has not yet called AddRef.
ThreadWrappersPending(o) ==
  {x \in ThreadWrappersOn(o) :
     thr[x[1]].pc = "copy_addref" /\ thr[x[1]].k = x[2]}

\* C11: with atomic AddRef and Release, wrappers of different threads on one
\* object can be copied and destroyed in any interleaving: no call reaches
\* the object after its destruction, it is destroyed at most once, only
\* after the last wrapper has released it (the count is the number of
\* constructed wrappers, so it is zero only when none is left), and it is
\* destroyed once all wrappers are gone and all threads are idle.
C11_ConcurrentCopyDestroy ==
  LET o == SharedObj IN
    /\ ~uaf
    /\ destroyed[o] <= 1
    /\ count[o] = Cardinality(ThreadWrappersOn(o))
                  - Cardinality(ThreadWrappersPending(o))
    /\ (destroyed[o] = 1 \/ \E t \in Thread : thr[t].pc = "dtor_delete") =>
         count[o] = 0 /\ ThreadWrappersOn(o) = {}
    /\ Cardinality({t \in Thread : thr[t].pc = "dtor_delete"})
         + destroyed[o] <= 1
    /\ (ThreadWrappersOn(o) = {} /\ \A t \in Thread : thr[t].pc = "idle") =>
         destroyed[o] = 1

\* All threads have copied and destroyed their wrappers; the object is gone.
C11_Witness ==
  /\ destroyed[SharedObj] = 1
  /\ count[SharedObj] = 0
  /\ \A t \in Thread : thr[t].pc = "idle" /\ \A k \in TPlace : ~thr[t].live[k]
  /\ calls = << <<"Release", SharedObj>> >>
====
